---- MODULE Spec2Model ----
(***************************************************************************)
(* Model of the two cores of the analyzer:                                 *)
(*   - the decompilation pipeline of src/src/decompilation.rs              *)
(*     (decompress, extract_dex with dex_to_jar, decompile), and           *)
(*   - the source tree mirror of src/src/results/report/handlebars.rs      *)
(*     (generate_code_html_folder, generate_code_html_for).                *)
(* Spec is the pipeline, SpecWalk the tree mirror.                         *)
(***************************************************************************)
EXTENDS Naturals, Sequences, FiniteSets, TLC

VARIABLES
    \* ---- pipeline (decompilation.rs) ----
    ws,          \* the package workspace <dist_folder>/<package>
    apk,         \* the package archive <package>.apk
    force,       \* config.is_force()
    verbose,     \* config.is_verbose()
    quiet,       \* config.is_quiet()
    pc,          \* the stage the run is about to call, or "done" / "exited"
    exitCode,    \* the status given to process::exit, "none" while running
    benchmarks,  \* the caller's Vec<Benchmark>, by label
    invoked,     \* history: the Command::output() calls of this run
    console,     \* what the last stage printed
    run,         \* number of runs started
    start,       \* history: the workspace at the start of this run, the previous run
    last,        \* history: the last stage called and the state it was called in
    \* ---- tree mirror (handlebars.rs) ----
    tree,        \* the source tree under <dist_folder>/<package>
    order,       \* the order in which fs::read_dir lists a directory
    outDirs,     \* directories under <results_folder>/<package>/src
    outFiles,    \* files under <results_folder>/<package>/src
    stack,       \* the active calls of generate_code_html_folder
    wpc,         \* "idle", "walking", "returned" or "failed"
    result,      \* the menu returned by the top-level call
    readDirs,    \* history: the directories given to fs::read_dir
    rendered,    \* history: the data given to the "code" template, per page
    fault,       \* history: the last failed call of generate_code_html_for
    \* ---- report generator (handlebars.rs) ----
    tdir,        \* the template directory
    handler,     \* the templates registered in the Handlebars handler, or "none"
    rpc,         \* "new", "load_failed", "loaded", "copied" or "generate_failed"
    outRoot      \* the entries of <results_folder>/<package>

pipeVars == <<ws, apk, force, verbose, quiet, pc, exitCode, benchmarks, invoked,
              console, run, start, last>>
walkVars == <<tree, order, outDirs, outFiles, stack, wpc, result, readDirs, rendered,
              fault>>
reportVars == <<tdir, handler, rpc, outRoot>>
vars == <<pipeVars, walkVars, reportVars>>

\* Number of pipeline runs (process launches) explored.
MaxRuns == 2

(***************************************************************************)
(* The pipeline: workspace, archive and outcomes of the environment.       *)
(***************************************************************************)

\* classes.dex in the workspace: absent, left by an earlier run or tool
\* ("stale"), created and still empty, partly written, or holding the bytes
\* of the archive entry.
DexStates == {"absent", "stale", "empty", "partial", "complete"}

\* The workspace does not exist.
NoWorkspace == [pkg |-> FALSE, dex |-> "absent", jar |-> FALSE, classes |-> FALSE]

Workspaces ==
    {NoWorkspace} \cup
    {[pkg |-> TRUE, dex |-> d, jar |-> j, classes |-> c] :
        d \in DexStates, j \in BOOLEAN, c \in BOOLEAN}

EntryNames == {"classes.dex", "Classes.dex"}

\* The archive: whether File::open succeeds, whether ZipArchive::new accepts
\* it, and the names of its entries.
Archives ==
    {[openable |-> FALSE, zip |-> FALSE, entries |-> {}],
     [openable |-> TRUE, zip |-> FALSE, entries |-> {}]} \cup
    {[openable |-> TRUE, zip |-> TRUE, entries |-> e] : e \in SUBSET EntryNames}

\* Command::output(): Err(_), Ok with a failure status, Ok with success.
ToolResults == {"launch_err", "status_err", "ok"}
\* A filesystem call: Ok or Err.
IoResults == {"ok", "err"}

Say(cond, msg) == IF cond THEN <<msg>> ELSE <<>>

\* One Command::output() call: the tool, its argument vector, its result and
\* the workspace and benchmarks at the time of the call.
Invocation(tool, args, res, w, b) ==
    [tool |-> tool, args |-> args, result |-> res, ws |-> w, benchmarks |-> b]

apktool_args == <<"-jar", "apktool.jar", "d", "-s", "-o", "dist/pkg", "-f", "pkg.apk">>
dex2jar_args == <<"dist/pkg/classes.dex", "-o", "dist/pkg/classes.jar">>
jd_cmd_args  == <<"-jar", "jd-cmd.jar", "dist/pkg/classes.jar", "-od", "dist/pkg/classes">>

\* fs::remove_dir_all(&path): the whole workspace goes, or the call fails.
remove_dir_all(w, rm) == IF rm = "ok" THEN NoWorkspace ELSE w

\* if !path.exists() || config.is_force()
decompress_runs(w, f) == ~w.pkg \/ f

\* As decompress, with a failed fs::remove_dir_all ending the run.
decompress_remove_fatal(w, inv, b, f, v, q, rm, out) ==
    IF decompress_runs(w, f)
    THEN LET w1   == IF w.pkg THEN remove_dir_all(w, rm) ELSE w
             call == Invocation("apktool", apktool_args, out, w1, b)
             head == Say(w.pkg /\ v, "folder exists") \o
                     Say(w.pkg /\ rm = "err", "warning: remove failed") \o
                     Say(v, "Decompressing the application")
         IN  IF w.pkg /\ rm = "err"
             THEN [ws |-> w1, invoked |-> inv, ran |-> TRUE, err |-> "remove",
                   console |-> head]
             ELSE IF out # "ok"
             THEN [ws |-> w1, invoked |-> Append(inv, call), ran |-> TRUE,
                   err |-> "apktool_status",
                   console |-> head \o <<"error: the decompression command returned an error">>]
             ELSE [ws |-> [w1 EXCEPT !.pkg = TRUE], invoked |-> Append(inv, call),
                   ran |-> TRUE, err |-> "none",
                   console |-> head \o
                       (IF v THEN <<"decompressed in dist/pkg">>
                        ELSE Say(~q, "Application decompressed."))]
    ELSE [ws |-> w, invoked |-> inv, ran |-> FALSE, err |-> "none",
          console |-> Say(v, "already decompressed")]

\* decompress(config, package): the state it leaves, from workspace w with
\* invocations inv, under the outcomes rm (remove_dir_all) and out (apktool).
\* err is "none" when the function returns, else the failure it exited on.
decompress(w, inv, b, f, v, q, rm, out) ==
    IF decompress_runs(w, f)
    THEN LET w1   == IF w.pkg THEN remove_dir_all(w, rm) ELSE w
             call == Invocation("apktool", apktool_args, out, w1, b)
             head == Say(w.pkg /\ v, "folder exists") \o
                     Say(w.pkg /\ rm = "err", "warning: remove failed") \o
                     Say(v, "Decompressing the application")
         IN  IF out = "launch_err"
             THEN [ws |-> w1, invoked |-> Append(inv, call), ran |-> TRUE,
                   err |-> "apktool_launch",
                   console |-> head \o <<"error: executing the decompression command">>]
             ELSE IF out = "status_err"
             THEN [ws |-> w1, invoked |-> Append(inv, call), ran |-> TRUE,
                   err |-> "apktool_status",
                   console |-> head \o <<"error: the decompression command returned an error">>]
             ELSE [ws |-> [w1 EXCEPT !.pkg = TRUE], invoked |-> Append(inv, call),
                   ran |-> TRUE, err |-> "none",
                   console |-> head \o
                       (IF v THEN <<"decompressed in dist/pkg">>
                        ELSE Say(~q, "Application decompressed."))]
    ELSE [ws |-> w, invoked |-> inv, ran |-> FALSE, err |-> "none",
          console |-> Say(v, "already decompressed")]

\* zip.by_name(name): the entry of exactly that name.
by_name(entries, name) == name \in entries

\* As extract_entry, with File::create called before the entry is looked up.
extract_entry_creates_first(a, w, cr, rd, wr) ==
    IF ~a.openable THEN [ws |-> w, err |-> "open"]
    ELSE IF ~a.zip THEN [ws |-> w, err |-> "zip"]
    ELSE IF ~w.pkg \/ cr = "err" THEN [ws |-> w, err |-> "create"]
    ELSE IF ~by_name(a.entries, "classes.dex")
         THEN [ws |-> [w EXCEPT !.dex = "empty"], err |-> "by_name"]
    ELSE IF rd = "err" THEN [ws |-> [w EXCEPT !.dex = "empty"], err |-> "read"]
    ELSE IF wr = "err" THEN [ws |-> [w EXCEPT !.dex = "partial"], err |-> "write"]
    ELSE [ws |-> [w EXCEPT !.dex = "complete"], err |-> "none"]

\* The extraction step of extract_dex: open the archive, find classes.dex,
\* create the file in the workspace, read the entry and write it.
extract_entry(a, w, cr, rd, wr) ==
    IF ~a.openable THEN [ws |-> w, err |-> "open"]
    ELSE IF ~a.zip THEN [ws |-> w, err |-> "zip"]
    ELSE IF ~by_name(a.entries, "classes.dex") THEN [ws |-> w, err |-> "by_name"]
    ELSE IF ~w.pkg \/ cr = "err" THEN [ws |-> w, err |-> "create"]
    ELSE IF rd = "err" THEN [ws |-> [w EXCEPT !.dex = "empty"], err |-> "read"]
    ELSE IF wr = "err" THEN [ws |-> [w EXCEPT !.dex = "partial"], err |-> "write"]
    ELSE [ws |-> [w EXCEPT !.dex = "complete"], err |-> "none"]

\* As dex_to_jar, with the check of output.status.success() made under
\* is_verbose() only.
dex_to_jar_status_if_verbose(w, inv, b, v, q, out) ==
    LET call == Invocation("dex2jar", dex2jar_args, out, w, b)
    IN  IF out = "launch_err"
        THEN [ws |-> w, invoked |-> Append(inv, call), err |-> "dex2jar_launch",
              console |-> <<"error: executing the dex to jar conversion command">>]
        ELSE IF out = "status_err" /\ v
        THEN [ws |-> w, invoked |-> Append(inv, call), err |-> "dex2jar_status",
              console |-> <<"error: the dex to jar conversion command returned an error">>]
        ELSE [ws |-> IF out = "ok" THEN [w EXCEPT !.jar = TRUE] ELSE w,
              invoked |-> Append(inv, call), err |-> "none",
              console |-> IF v THEN <<"jar file has been generated">>
                          ELSE Say(~q, "Jar file generated.")]

\* As dex_to_jar, without the check of output.status.success().
dex_to_jar_ignores_status(w, inv, b, v, q, out) ==
    LET call == Invocation("dex2jar", dex2jar_args, out, w, b)
    IN  IF out = "launch_err"
        THEN [ws |-> w, invoked |-> Append(inv, call), err |-> "dex2jar_launch",
              console |-> <<"error: executing the dex to jar conversion command">>]
        ELSE [ws |-> IF out = "ok" THEN [w EXCEPT !.jar = TRUE] ELSE w,
              invoked |-> Append(inv, call), err |-> "none",
              console |-> IF v THEN <<"jar file has been generated">>
                          ELSE Say(~q, "Jar file generated.")]

\* dex_to_jar(config, package) under the outcome out of d2j-dex2jar.
dex_to_jar(w, inv, b, v, q, out) ==
    LET call == Invocation("dex2jar", dex2jar_args, out, w, b)
    IN  IF out = "launch_err"
        THEN [ws |-> w, invoked |-> Append(inv, call), err |-> "dex2jar_launch",
              console |-> <<"error: executing the dex to jar conversion command">>]
        ELSE IF out = "status_err"
        THEN [ws |-> w, invoked |-> Append(inv, call), err |-> "dex2jar_status",
              console |-> <<"error: the dex to jar conversion command returned an error">>]
        ELSE [ws |-> [w EXCEPT !.jar = TRUE], invoked |-> Append(inv, call),
              err |-> "none",
              console |-> IF v THEN <<"jar file has been generated">>
                          ELSE Say(~q, "Jar file generated.")]

\* As extract_dex_runs, without the force flag.
extract_dex_runs_unforced(w, f) == ~w.pkg

\* if config.is_force() || !config.get_dist_folder().join(package).exists()
extract_dex_runs(w, f) == f \/ ~w.pkg

\* As extract_dex, without the push of the second benchmark.
extract_dex_one_benchmark(a, w, inv, b, f, v, q, cr, rd, wr, out) ==
    IF extract_dex_runs(w, f)
    THEN LET x    == extract_entry(a, w, cr, rd, wr)
             head == Say(v, "first we need to extract the .dex file")
         IN  IF x.err # "none"
             THEN [ws |-> x.ws, invoked |-> inv, benchmarks |-> b, ran |-> TRUE,
                   err |-> x.err, console |-> head \o <<"error: " \o x.err>>]
             ELSE LET b1  == Append(b, "Dex extraction")
                      mid == IF v THEN <<"dex file was extracted", "time to create the jar">>
                             ELSE Say(~q, "Dex file extracted.")
                      j   == dex_to_jar(x.ws, inv, b1, v, q, out)
                  IN  [ws |-> j.ws, invoked |-> j.invoked, benchmarks |-> b1,
                       ran |-> TRUE, err |-> j.err,
                       console |-> head \o mid \o j.console]
    ELSE [ws |-> w, invoked |-> inv, benchmarks |-> b, ran |-> FALSE, err |-> "none",
          console |-> Say(v, "already a .jar file")]

\* extract_dex(config, package, benchmarks).
extract_dex(a, w, inv, b, f, v, q, cr, rd, wr, out) ==
    IF extract_dex_runs(w, f)
    THEN LET x    == extract_entry(a, w, cr, rd, wr)
             head == Say(v, "first we need to extract the .dex file")
         IN  IF x.err # "none"
             THEN [ws |-> x.ws, invoked |-> inv, benchmarks |-> b, ran |-> TRUE,
                   err |-> x.err, console |-> head \o <<"error: " \o x.err>>]
             ELSE LET b1  == Append(b, "Dex extraction")
                      mid == IF v THEN <<"dex file was extracted", "time to create the jar">>
                             ELSE Say(~q, "Dex file extracted.")
                      j   == dex_to_jar(x.ws, inv, b1, v, q, out)
                  IN  [ws |-> j.ws, invoked |-> j.invoked,
                       benchmarks |-> IF j.err = "none"
                                      THEN Append(b1, "Dex to Jar decompilation")
                                      ELSE b1,
                       ran |-> TRUE, err |-> j.err,
                       console |-> head \o mid \o j.console]
    ELSE [ws |-> w, invoked |-> inv, benchmarks |-> b, ran |-> FALSE, err |-> "none",
          console |-> Say(v, "already a .jar file")]

\* As decompile_runs, without the check of the classes folder.
decompile_runs_always(w, f) == TRUE

\* if config.is_force() || !out_path.exists()
decompile_runs(w, f) == f \/ ~w.classes

\* decompile(config, package) under the outcome out of jd-cmd.
decompile(w, inv, b, f, v, q, out) ==
    IF decompile_runs(w, f)
    THEN LET call == Invocation("jd-cmd", jd_cmd_args, out, w, b)
         IN  IF out = "launch_err"
             THEN [ws |-> w, invoked |-> Append(inv, call), ran |-> TRUE,
                   err |-> "jd_cmd_launch",
                   console |-> <<"error: unknown error decompiling the application">>]
             ELSE IF out = "status_err"
             THEN [ws |-> w, invoked |-> Append(inv, call), ran |-> TRUE,
                   err |-> "jd_cmd_status",
                   console |-> <<"error: the decompilation command returned an error">>]
             ELSE [ws |-> [w EXCEPT !.pkg = TRUE, !.classes = TRUE],
                   invoked |-> Append(inv, call), ran |-> TRUE, err |-> "none",
                   console |-> IF v THEN <<"succesfully decompiled">>
                               ELSE Say(~q, "Application decompiled.")]
    ELSE [ws |-> w, invoked |-> inv, ran |-> FALSE, err |-> "none",
          console |-> Say(v, "already a source folder")]

\* What a stage was called in.
Called(stage, r) ==
    [stage |-> stage, ran |-> r.ran, err |-> r.err,
     ws |-> ws, benchmarks |-> benchmarks, invoked |-> invoked]

\* exit(Error::Unknown.into()) when the stage failed, else on to the next stage.
Continue(r, next) ==
    /\ pc' = IF r.err = "none" THEN next ELSE "exited"
    /\ exitCode' = IF r.err = "none" THEN exitCode ELSE "Unknown"

\* A run of the program starts: the caller's benchmark vector is empty.
StartRun ==
    /\ pc \in {"idle", "done", "exited"}
    /\ run < MaxRuns
    /\ \E f \in BOOLEAN, v \in BOOLEAN, q \in BOOLEAN :
          /\ force' = f
          /\ verbose' = v
          /\ quiet' = q
    /\ run' = run + 1
    /\ pc' = "decompress"
    /\ exitCode' = "none"
    /\ benchmarks' = <<>>
    /\ invoked' = <<>>
    /\ console' = <<>>
    /\ start' = [ws |-> ws, completed |-> pc = "done", force |-> force,
                 invoked |-> invoked]
    /\ last' = [stage |-> "none", ran |-> FALSE, err |-> "none",
                ws |-> ws, benchmarks |-> <<>>, invoked |-> <<>>]
    /\ UNCHANGED <<ws, apk>>
    /\ UNCHANGED walkVars
    /\ UNCHANGED reportVars

Decompress ==
    /\ pc = "decompress"
    /\ \E rm \in IoResults, out \in ToolResults :
          LET r == decompress(ws, invoked, benchmarks, force, verbose, quiet, rm, out)
          IN  /\ ws' = r.ws
              /\ invoked' = r.invoked
              /\ console' = r.console
              /\ last' = Called("decompress", r)
              /\ Continue(r, "extract_dex")
    /\ UNCHANGED <<apk, force, verbose, quiet, benchmarks, run, start>>
    /\ UNCHANGED walkVars
    /\ UNCHANGED reportVars

ExtractDex ==
    /\ pc = "extract_dex"
    /\ \E cr \in IoResults, rd \in IoResults, wr \in IoResults, out \in ToolResults :
          LET r == extract_dex(apk, ws, invoked, benchmarks, force, verbose, quiet,
                               cr, rd, wr, out)
          IN  /\ ws' = r.ws
              /\ invoked' = r.invoked
              /\ benchmarks' = r.benchmarks
              /\ console' = r.console
              /\ last' = Called("extract_dex", r)
              /\ Continue(r, "decompile")
    /\ UNCHANGED <<apk, force, verbose, quiet, run, start>>
    /\ UNCHANGED walkVars
    /\ UNCHANGED reportVars

Decompile ==
    /\ pc = "decompile"
    /\ \E out \in ToolResults :
          LET r == decompile(ws, invoked, benchmarks, force, verbose, quiet, out)
          IN  /\ ws' = r.ws
              /\ invoked' = r.invoked
              /\ console' = r.console
              /\ last' = Called("decompile", r)
              /\ Continue(r, "done")
    /\ UNCHANGED <<apk, force, verbose, quiet, benchmarks, run, start>>
    /\ UNCHANGED walkVars
    /\ UNCHANGED reportVars

\* No call of generate_code_html_for has failed.
NoFault == [kind |-> "none", path |-> <<>>, outDirs |-> {}, outFiles |-> {}]

\* The report generator as Report::generate has it when it calls
\* generate_code_html_files: templates loaded, report page and assets written.
ReportReady ==
    /\ tdir = [listable |-> TRUE, entries |-> {"report.hbs", "src.hbs", "code.hbs"},
               dirs |-> {}, broken |-> {}]
    /\ handler = {"report", "src", "code"}
    /\ rpc = "copied"
    /\ outRoot = {"index.html"}

\* The tree mirror at rest, while the pipeline is explored.
WalkIdle ==
    /\ tree = [files |-> {}, dirs |-> {<<>>}]
    /\ order = "fwd"
    /\ outDirs = {}
    /\ outFiles = {}
    /\ stack = <<>>
    /\ wpc = "idle"
    /\ result = <<>>
    /\ readDirs = {}
    /\ rendered = <<>>
    /\ fault = NoFault

Init ==
    /\ ws \in Workspaces
    /\ apk \in Archives
    /\ force = FALSE
    /\ verbose = FALSE
    /\ quiet = FALSE
    /\ pc = "idle"
    /\ exitCode = "none"
    /\ benchmarks = <<>>
    /\ invoked = <<>>
    /\ console = <<>>
    /\ run = 0
    /\ start = [ws |-> ws, completed |-> FALSE, force |-> FALSE, invoked |-> <<>>]
    /\ last = [stage |-> "none", ran |-> FALSE, err |-> "none",
               ws |-> ws, benchmarks |-> <<>>, invoked |-> <<>>]
    /\ WalkIdle
    /\ ReportReady

Next ==
    \/ StartRun
    \/ Decompress
    \/ ExtractDex
    \/ Decompile

Spec == Init /\ [][Next]_vars

(***************************************************************************)
(* The tree mirror: source trees, paths and the output tree.               *)
(***************************************************************************)

\* Largest number of leaves (files and empty directories) of a source tree.
MaxLeaves == 4

\* A path is the sequence of its components; <<>> is Path::new("").
\* The files a source tree may hold.
FileLeaves ==
    {<<"MainActivity.java">>,
     <<"classes.dex">>,
     <<"README">>,
     <<"res", "layout", "main.xml">>,
     <<"res", "icon.png">>,
     <<"smali", "S.java">>,
     <<"original", "O.java">>,
     <<"classes", "android", "A.java">>,
     <<"classes", "com", "google", "android", "gms", "Ad.java">>,
     <<"classes", "com", "google", "Lib.java">>,
     <<"classes", "a", "original", "F.java">>,
     <<"a", "b", "c", "File.java">>,
     <<"a", "b", "notes.txt">>}

\* The empty directories a source tree may hold.
DirLeaves == {<<"lib">>}

\* The names of FileLeaves and DirLeaves, in the order of a forward listing.
NameOrder ==
    <<"A.java", "Ad.java", "F.java", "File.java", "Lib.java", "MainActivity.java",
      "O.java", "README", "S.java", "a", "android", "b", "c", "classes",
      "classes.dex", "com", "gms", "google", "icon.png", "layout", "lib",
      "main.xml", "notes.txt", "original", "res", "smali">>

Prefixes(p) == {SubSeq(p, 1, k) : k \in 0..Len(p)}
ProperPrefixes(p) == {SubSeq(p, 1, k) : k \in 0..(Len(p) - 1)}
IsPrefix(p, q) == Len(p) <= Len(q) /\ SubSeq(q, 1, Len(p)) = p
Parent(p) == SubSeq(p, 1, Len(p) - 1)
Last(p) == p[Len(p)]

\* The source tree with the files fs and the empty directories ds.
TreeOf(fs, ds) ==
    [files |-> fs,
     dirs  |-> UNION {ProperPrefixes(f) : f \in fs} \cup UNION {Prefixes(d) : d \in ds}
               \cup {<<>>}]

Trees ==
    {TreeOf(l \cap FileLeaves, l \cap DirLeaves) :
        l \in {x \in SUBSET (FileLeaves \cup DirLeaves) : Cardinality(x) <= MaxLeaves}}

Reverse(s) == [i \in 1..Len(s) |-> s[Len(s) + 1 - i]]

\* As read_dir, with the children sorted by name whatever the listing order.
read_dir_sorted(t, o, p) ==
    LET here(n) == Append(p, n) \in t.files \cup t.dirs
    IN  SelectSeq(NameOrder, here)

\* fs::read_dir(<dist>/<package>/p): the names of the children of p, as listed.
read_dir(t, o, p) ==
    LET here(n) == Append(p, n) \in t.files \cup t.dirs
        fwd     == SelectSeq(NameOrder, here)
    IN  IF o = "fwd" THEN fwd ELSE Reverse(fwd)

\* Path::extension() of a file name; "" stands for None.
extension(name) ==
    CASE name \in {"A.java", "Ad.java", "F.java", "File.java", "Lib.java",
                   "MainActivity.java", "O.java", "S.java"} -> "java"
      [] name = "main.xml" -> "xml"
      [] name = "classes.dex" -> "dex"
      [] name = "icon.png" -> "png"
      [] name = "notes.txt" -> "txt"
      [] name \in {"report.hbs", "src.hbs", "code.hbs"} -> "hbs"
      [] name = "style.css" -> "css"
      [] OTHER -> ""

\* format!("{}", path.display())
RECURSIVE display(_)
display(p) ==
    IF p = <<>> THEN ""
    ELSE IF Len(p) = 1 THEN p[1]
    ELSE display(Parent(p)) \o "/" \o Last(p)

\* As is_excluded, without the smali rule.
is_excluded_without_smali(p) ==
    \/ p = <<"classes", "android">>
    \/ p = <<"classes", "com", "google", "android", "gms">>

\* path == "classes/android" || path == "classes/com/google/android/gms" || path == "smali"
is_excluded(p) ==
    \/ p = <<"classes", "android">>
    \/ p = <<"classes", "com", "google", "android", "gms">>
    \/ p = <<"smali">>

\* As is_original, for a directory of that name at any depth.
is_original_at_any_depth(p) == Last(p) = "original"

\* stripped == Path::new("original"), negated in the source
is_original(p) == p = <<"original">>

\* As is_eligible, for java files only.
is_eligible_java_only(e) == e = "java"

\* Some(e) if e == "xml" || e == "java"
is_eligible(e) == e = "xml" \/ e = "java"

\* As prune, never pruning.
prune_never(inner) == FALSE

\* inner_menu.is_empty()
prune(inner) == inner = <<>>

\* fs::create_dir_all(<results>/<package>/src/p): p and its ancestors.
create_dir_all(dirs, p) == dirs \cup Prefixes(p)

\* As remove_dir_all_out, removing the directory's content and not the directory.
remove_dir_content(paths, p) == {q \in paths : ~IsPrefix(p, q) \/ q = p}

\* fs::remove_dir_all(<results>/<package>/src/p), on the set of directories or files.
remove_dir_all_out(paths, p) == {q \in paths : ~IsPrefix(p, q)}

\* format!("{}.html", <results>/<package>/src/p)
page_path(p) == [p EXCEPT ![Len(p)] = @ \o ".html"]

RECURSIVE Repeat(_, _)
Repeat(s, n) == IF n = 0 THEN "" ELSE Repeat(s, n - 1) \o s

\* As back_path, one segment per enclosing directory.
back_path_of_parent(p) == Repeat("../", Len(p) - 1)

\* for _ in path.components() { back_path.push_str("../") }
back_path(p) == Repeat("../", Len(p))

\* The data given to the "code" template (the source text left out).
code_data(p) == [path |-> display(p), back_path |-> back_path(p)]

\* The menu object of a rendered file.
file_object(p) == [name |-> Last(p), path |-> display(p), type |-> extension(Last(p))]

\* The menu object of a directory.
dir_object(p, inner) == [name |-> Last(p), menu |-> inner]

Top == stack[Len(stack)]

\* The call of generate_code_html_for on p met the error io, with the output
\* tree as it was then.
Fault(io, p) == [kind |-> io, path |-> p, outDirs |-> outDirs, outFiles |-> outFiles]

\* As aborts_before_page, with a failed read not returned to the caller.
aborts_on_create_only(io) == io = "create_err"

\* fs::read_to_string(..)? and File::create(..)?: the errors returned before
\* the page exists.
aborts_before_page(io) == io \in {"read_err", "create_err"}

\* The walk fails: the error goes up through every active call.
Fail ==
    /\ wpc' = "failed"
    /\ stack' = <<>>
    /\ UNCHANGED result

\* The call of generate_code_html_folder on the directory p that is not
\* excluded: read_dir, create_dir_all, and the loop begins.
Enter(p, io) ==
    /\ readDirs' = readDirs \cup {p}
    /\ IF io = "read_dir_err"
       THEN Fail /\ UNCHANGED outDirs
       ELSE IF io = "create_dir_err"
       THEN Fail /\ UNCHANGED outDirs
       ELSE /\ outDirs' = create_dir_all(outDirs, p)
            /\ stack' = Append(stack, [path |-> p, todo |-> read_dir(tree, order, p),
                                       menu |-> <<>>])
            /\ wpc' = "walking"
            /\ UNCHANGED result

\* The caller's loop body after the call on its child p returned inner: prune
\* or attach, and on to the next entry.
Attach(callers, p, inner, io) ==
    LET n == Len(callers)
    IN  IF prune(inner)
        THEN IF p \in outDirs
             THEN IF io = "remove_err"
                  THEN Fail /\ UNCHANGED <<outDirs, outFiles>>
                  ELSE /\ outDirs' = remove_dir_all_out(outDirs, p)
                       /\ outFiles' = remove_dir_all_out(outFiles, p)
                       /\ stack' = [callers EXCEPT ![n].todo = Tail(@)]
                       /\ UNCHANGED <<wpc, result>>
             ELSE /\ stack' = [callers EXCEPT ![n].todo = Tail(@)]
                  /\ UNCHANGED <<wpc, result, outDirs, outFiles>>
        ELSE /\ stack' = [callers EXCEPT ![n].todo = Tail(@),
                                         ![n].menu = Append(@, dir_object(p, inner))]
             /\ UNCHANGED <<wpc, result, outDirs, outFiles>>

\* generate_code_html_files calls generate_code_html_folder("").
Generate ==
    /\ wpc = "idle"
    /\ rpc = "copied"
    /\ \E io \in {"ok", "read_dir_err", "create_dir_err"} : Enter(<<>>, io)
    /\ UNCHANGED <<tree, order, outFiles, rendered, fault>>
    /\ UNCHANGED pipeVars
    /\ UNCHANGED reportVars

\* The next entry of the loop is a directory.
VisitDir ==
    /\ wpc = "walking"
    /\ Top.todo # <<>>
    /\ LET p == Append(Top.path, Head(Top.todo))
       IN  /\ p \in tree.dirs
           /\ IF is_original(p)
              THEN /\ stack' = [stack EXCEPT ![Len(stack)].todo = Tail(@)]
                   /\ UNCHANGED <<wpc, result, outDirs, outFiles, readDirs>>
              ELSE IF is_excluded(p)
              THEN /\ \E io \in {"ok", "remove_err"} : Attach(stack, p, <<>>, io)
                   /\ UNCHANGED readDirs
              ELSE /\ \E io \in {"ok", "read_dir_err", "create_dir_err"} : Enter(p, io)
                   /\ UNCHANGED outFiles
    /\ UNCHANGED <<tree, order, rendered, fault>>
    /\ UNCHANGED pipeVars
    /\ UNCHANGED reportVars

\* The next entry of the loop is a file: generate_code_html_for when eligible.
VisitFile ==
    /\ wpc = "walking"
    /\ Top.todo # <<>>
    /\ LET p == Append(Top.path, Head(Top.todo))
       IN  /\ p \in tree.files
           /\ IF is_eligible(extension(Last(p)))
              THEN \E io \in {"ok", "read_err", "create_err", "render_err"} :
                      /\ fault' = IF io = "ok" THEN fault ELSE Fault(io, p)
                      /\ IF aborts_before_page(io)
                         THEN Fail /\ UNCHANGED <<outFiles, rendered>>
                         ELSE IF io = "render_err"
                         THEN /\ Fail
                              /\ outFiles' = outFiles \cup {page_path(p)}
                              /\ UNCHANGED rendered
                         ELSE /\ outFiles' = outFiles \cup {page_path(p)}
                              /\ rendered' = Append(rendered, code_data(p))
                              /\ stack' = [stack EXCEPT
                                              ![Len(stack)].todo = Tail(@),
                                              ![Len(stack)].menu = Append(@, file_object(p))]
                              /\ UNCHANGED <<wpc, result>>
              ELSE /\ stack' = [stack EXCEPT ![Len(stack)].todo = Tail(@)]
                   /\ UNCHANGED <<wpc, result, outFiles, rendered, fault>>
    /\ UNCHANGED <<tree, order, outDirs, readDirs>>
    /\ UNCHANGED pipeVars
    /\ UNCHANGED reportVars

\* The loop is over: Ok(menu) goes to the caller.
Return ==
    /\ wpc = "walking"
    /\ Top.todo = <<>>
    /\ IF Len(stack) = 1
       THEN /\ result' = Top.menu
            /\ wpc' = "returned"
            /\ stack' = <<>>
            /\ UNCHANGED <<outDirs, outFiles>>
       ELSE \E io \in {"ok", "remove_err"} :
               Attach(SubSeq(stack, 1, Len(stack) - 1), Top.path, Top.menu, io)
    /\ UNCHANGED <<tree, order, readDirs, rendered, fault>>
    /\ UNCHANGED pipeVars
    /\ UNCHANGED reportVars

\* generate_code_html_files writes src/index.html from the menu.
WriteIndex ==
    /\ wpc = "returned"
    /\ \E io \in {"ok", "create_err", "render_err"} :
          /\ wpc' = IF io = "ok" THEN "done" ELSE "failed"
          /\ outFiles' = IF io = "create_err" THEN outFiles
                         ELSE outFiles \cup {<<"index.html">>}
    /\ UNCHANGED <<tree, order, outDirs, stack, result, readDirs, rendered, fault>>
    /\ UNCHANGED pipeVars
    /\ UNCHANGED reportVars

\* The pipeline at rest, while the tree mirror is explored.
PipeIdle ==
    /\ ws = NoWorkspace
    /\ apk = [openable |-> TRUE, zip |-> TRUE, entries |-> {"classes.dex"}]
    /\ force = FALSE
    /\ verbose = FALSE
    /\ quiet = FALSE
    /\ pc = "idle"
    /\ exitCode = "none"
    /\ benchmarks = <<>>
    /\ invoked = <<>>
    /\ console = <<>>
    /\ run = 0
    /\ start = [ws |-> ws, completed |-> FALSE, force |-> FALSE, invoked |-> <<>>]
    /\ last = [stage |-> "none", ran |-> FALSE, err |-> "none",
               ws |-> ws, benchmarks |-> <<>>, invoked |-> <<>>]

InitWalk ==
    /\ PipeIdle
    /\ tree \in Trees
    /\ order \in {"fwd", "rev"}
    /\ outDirs = {}
    /\ outFiles = {}
    /\ stack = <<>>
    /\ wpc = "idle"
    /\ result = <<>>
    /\ readDirs = {}
    /\ rendered = <<>>
    /\ fault = NoFault
    /\ ReportReady

NextWalk ==
    \/ Generate
    \/ VisitDir
    \/ VisitFile
    \/ Return
    \/ WriteIndex

SpecWalk == InitWalk /\ [][NextWalk]_vars

(***************************************************************************)
(* The report generator: Report::from_path and Generator::generate.        *)
(* tdir is the template directory: whether fs::read_dir can list it, its   *)
(* files, its subdirectories, and the .hbs files that do not register.     *)
(* handler holds the names of the registered templates, outRoot the        *)
(* entries written under <results>/<package>.                              *)
(***************************************************************************)

\* The files and subdirectories a template directory may hold.
TemplateFiles == {"report.hbs", "src.hbs", "code.hbs", "style.css", "LICENSE"}
TemplateFolders == {"css"}

TemplateDirs ==
    {t \in [listable : BOOLEAN, entries : SUBSET TemplateFiles,
            dirs : SUBSET TemplateFolders, broken : SUBSET TemplateFiles] :
        /\ t.broken \subseteq {f \in t.entries : extension(f) = "hbs"}
        /\ Cardinality(t.broken) <= 1}

\* Path::file_stem() of a template file.
file_stem(name) ==
    CASE name = "report.hbs" -> "report"
      [] name = "src.hbs" -> "src"
      [] name = "code.hbs" -> "code"
      [] name = "style.css" -> "style"
      [] OTHER -> name

\* The templates registered by the loop over the directory.
registered(t) == {file_stem(f) : f \in {e \in t.entries : extension(e) = "hbs"}}

\* As has_required, looking for the report template only.
has_required_report_only(reg) == "report" \in reg

\* get_template("report"), get_template("src") and get_template("code") are Some.
has_required(reg) == "report" \in reg /\ "src" \in reg /\ "code" \in reg

\* load_templates(template_path): Ok(handlebars) or Err.
load_templates(t) ==
    IF ~t.listable
    THEN [ok |-> FALSE, handler |-> {}]
    ELSE IF \E f \in t.entries : extension(f) = "hbs" /\ f \in t.broken
    THEN [ok |-> FALSE, handler |-> {}]
    ELSE IF ~has_required(registered(t))
    THEN [ok |-> FALSE, handler |-> {}]
    ELSE [ok |-> TRUE, handler |-> registered(t)]

\* The files of a subdirectory of the template directory.
folder_content(d) == IF d = "css" THEN {"site.css"} ELSE {}

\* copy_folder(<templates>/d, <results>/<package>/d): the folder and what it holds.
copy_folder(d) == {d} \cup {d \o "/" \o f : f \in folder_content(d)}

\* The match on entry_path.extension(): neither Some("hbs") nor None.
is_copied(f) == extension(f) \notin {"hbs", ""}

\* The body of Generator::generate up to the call of generate_code_html_files.
\* fs::copy is given the directory <results>/<package> as its destination,
\* which it cannot open as a file: it returns Err, and ? ends generate. The
\* folders in done are those the listing yielded before the failing entry.
report_generate(t, cr, rn, cp, done) ==
    IF cr = "err"
    THEN [ok |-> FALSE, out |-> {}]
    ELSE IF rn = "err"
    THEN [ok |-> FALSE, out |-> {"index.html"}]
    ELSE IF (\E f \in t.entries : is_copied(f)) \/ (cp = "err" /\ t.dirs # {})
    THEN [ok |-> FALSE, out |-> {"index.html"} \cup UNION {copy_folder(d) : d \in done}]
    ELSE [ok |-> TRUE, out |-> {"index.html"} \cup UNION {copy_folder(d) : d \in t.dirs}]

\* Report::from_path(template_path, package).
FromPath ==
    /\ rpc = "new"
    /\ LET r == load_templates(tdir)
       IN  /\ rpc' = IF r.ok THEN "loaded" ELSE "load_failed"
           /\ handler' = r.handler
    /\ UNCHANGED <<tdir, outRoot>>
    /\ UNCHANGED pipeVars
    /\ UNCHANGED walkVars

\* Generator::generate, up to the call of generate_code_html_files.
ReportGenerate ==
    /\ rpc = "loaded"
    /\ \E cr \in IoResults, rn \in IoResults, cp \in IoResults :
       \E done \in SUBSET tdir.dirs :
          /\ (cp = "err" /\ tdir.dirs # {}) => done # tdir.dirs
          /\ LET r == report_generate(tdir, cr, rn, cp, done)
             IN  /\ rpc' = IF r.ok THEN "copied" ELSE "generate_failed"
                 /\ outRoot' = r.out
    /\ UNCHANGED <<tdir, handler>>
    /\ UNCHANGED pipeVars
    /\ UNCHANGED walkVars

\* The source trees the report is generated over.
ReportTrees ==
    {TreeOf({<<"MainActivity.java">>, <<"res", "icon.png">>}, {<<"lib">>}),
     TreeOf({<<"a", "b", "c", "File.java">>}, {})}

InitReport ==
    /\ PipeIdle
    /\ tree \in ReportTrees
    /\ order = "fwd"
    /\ outDirs = {}
    /\ outFiles = {}
    /\ stack = <<>>
    /\ wpc = "idle"
    /\ result = <<>>
    /\ readDirs = {}
    /\ rendered = <<>>
    /\ fault = NoFault
    /\ tdir \in TemplateDirs
    /\ handler = {}
    /\ rpc = "new"
    /\ outRoot = {}

NextReport ==
    \/ FromPath
    \/ ReportGenerate
    \/ Generate
    \/ VisitDir
    \/ VisitFile
    \/ Return
    \/ WriteIndex

SpecReport == InitReport /\ [][NextReport]_vars

(***************************************************************************)
(* Properties of the pipeline.                                             *)
(***************************************************************************)

\* The tools invoked, in order.
ToolsOf(inv) == [i \in 1..Len(inv) |-> inv[i].tool]

\* Failures of extract_dex before it reaches dex_to_jar.
ExtractionErrs == {"open", "zip", "by_name", "create", "read", "write"}

StageTool(stage) ==
    CASE stage = "decompress" -> "apktool"
      [] stage = "extract_dex" -> "dex2jar"
      [] stage = "decompile" -> "jd-cmd"
      [] OTHER -> "none"

\* C1: idempotency. When a run with force disabled follows a run with force
\* disabled that went through all three stages, the second run invokes no
\* external tool, appends no benchmark record and leaves the workspace as the
\* first run left it.
C1_Idempotent ==
    (run >= 2 /\ start.completed /\ ~start.force /\ ~force) =>
        /\ invoked = <<>>
        /\ benchmarks = <<>>
        /\ ws = start.ws

\* The second unforced run has finished, after a first unforced run that invoked a tool.
C1_Witness ==
    /\ run >= 2 /\ start.completed /\ ~start.force /\ ~force
    /\ start.invoked # <<>>
    /\ pc = "done"

\* C2: force semantics. With force set no stage takes its skip branch,
\* whatever the workspace holds: a stage that was called has invoked its tool
\* exactly once (extract_dex once its extraction step succeeded), so a forced
\* run that reaches a stage has invoked the tools of all the stages before it.
C2_ForceInvokesEveryTool ==
    force =>
        /\ last.stage # "none" =>
              /\ last.ran
              /\ last.err \notin ExtractionErrs =>
                    /\ Len(invoked) = Len(last.invoked) + 1
                    /\ invoked[Len(invoked)].tool = StageTool(last.stage)
        /\ pc = "extract_dex" => ToolsOf(invoked) = <<"apktool">>
        /\ pc = "decompile" => ToolsOf(invoked) = <<"apktool", "dex2jar">>
        /\ pc = "done" => ToolsOf(invoked) = <<"apktool", "dex2jar", "jd-cmd">>

\* A forced run has finished in a workspace that held every marker at its start.
C2_Witness ==
    /\ force /\ pc = "done"
    /\ start.ws.pkg /\ start.ws.jar /\ start.ws.classes
    /\ start.ws.dex = "complete"

\* C3: each stage's output is the next stage's input. dex2jar is invoked only
\* when classes.dex has been written, jd-cmd only when classes.jar is there,
\* and a stage that returned has its output in the workspace.
C3_StagesFeedEachOther ==
    /\ \A i \in 1..Len(invoked) :
          /\ invoked[i].tool = "dex2jar" => invoked[i].ws.dex = "complete"
          /\ invoked[i].tool = "jd-cmd" => invoked[i].ws.jar
    /\ pc \in {"extract_dex", "decompile", "done"} => ws.pkg
    /\ pc \in {"decompile", "done"} => ws.jar
    /\ pc = "done" => ws.classes

\* The outcome of a stage apart from its narration.
Handling(r) == [ws |-> r.ws, tools |-> ToolsOf(r.invoked), failed |-> r.err # "none"]

\* C4: a tool that could not be launched and a tool that returned a non-zero
\* status are handled alike and are fatal. The failed invocation is the last
\* one of the run, the run has exited with the status Unknown, and neither the
\* workspace nor the benchmarks have changed since the invocation.
C4_ToolFailureIsFatal ==
    /\ \A i \in 1..Len(invoked) :
          invoked[i].result # "ok" =>
              /\ i = Len(invoked)
              /\ pc = "exited"
              /\ exitCode = "Unknown"
              /\ ws = invoked[i].ws
              /\ benchmarks = invoked[i].benchmarks
    /\ \A rm \in IoResults :
          LET d(o) == decompress(ws, invoked, benchmarks, TRUE, verbose, quiet, rm, o)
          IN  Handling(d("launch_err")) = Handling(d("status_err"))
                 /\ d("launch_err").err # "none"
    /\ LET e(o) == extract_dex(apk, ws, invoked, benchmarks, TRUE, verbose, quiet,
                               "ok", "ok", "ok", o)
       IN  /\ Handling(e("launch_err")) = Handling(e("status_err"))
           /\ e("launch_err").benchmarks = e("status_err").benchmarks
           /\ e("launch_err").err # "none"
    /\ LET j(o) == decompile(ws, invoked, benchmarks, TRUE, verbose, quiet, o)
       IN  Handling(j("launch_err")) = Handling(j("status_err"))
              /\ j("launch_err").err # "none"

\* dex2jar returned a non-zero status after apktool succeeded.
C4_Witness ==
    /\ pc = "exited"
    /\ Len(invoked) = 2
    /\ invoked[2].tool = "dex2jar"
    /\ invoked[2].result = "status_err"

\* The archive opens, is a zip and holds an entry named exactly classes.dex.
HasEntry(a) == a.openable /\ a.zip /\ "classes.dex" \in a.entries

\* C10: when the archive cannot be opened, is no zip or holds no entry named
\* exactly classes.dex, extract_dex exits with an error, leaves classes.dex (and
\* the rest of the workspace) as it was, appends no benchmark record and does
\* not invoke dex2jar.
C10_MissingEntry ==
    (last.stage = "extract_dex" /\ last.ran /\ ~HasEntry(apk)) =>
        /\ pc = "exited"
        /\ exitCode = "Unknown"
        /\ ws = last.ws
        /\ benchmarks = last.benchmarks
        /\ invoked = last.invoked
        /\ \A i \in 1..Len(invoked) : invoked[i].tool # "dex2jar"

\* extract_dex ran on an archive whose only entry is Classes.dex, over an
\* existing classes.dex.
C10_Witness ==
    /\ last.stage = "extract_dex" /\ last.ran
    /\ apk.zip /\ apk.entries = {"Classes.dex"}
    /\ last.ws.dex = "stale"
    /\ pc = "exited"

(***************************************************************************)
(* Properties of the tree mirror.                                          *)
(***************************************************************************)

\* The top-level call of generate_code_html_folder has returned Ok.
Walked == wpc \in {"returned", "done"}

\* The rendered pages of the output tree (src/index.html is the menu page).
Pages == outFiles \ {<<"index.html">>}

\* The exclusion rules, and with them the backup directory.
ExcludedPaths ==
    {<<"classes", "android">>, <<"classes", "com", "google", "android", "gms">>,
     <<"smali">>}
SkippedPaths == ExcludedPaths \cup {<<"original">>}

UnderExcluded(q) == \E x \in ExcludedPaths : IsPrefix(x, q)

\* The files with extension xml or java.
EligibleFiles(t) == {f \in t.files : extension(Last(f)) \in {"xml", "java"}}

\* The eligible files that lie below no excluded or skipped directory.
VisibleFiles(t) ==
    {f \in EligibleFiles(t) : \A q \in ProperPrefixes(f) : q \notin SkippedPaths}

\* The directory d has no such file in its subtree.
Barren(t, d) == d # <<>> /\ ~\E f \in VisibleFiles(t) : IsPrefix(d, f)

\* The file entries of a menu tree, in order.
RECURSIVE MenuFiles(_)
MenuFiles(m) ==
    IF m = <<>> THEN <<>>
    ELSE LET h == Head(m)
         IN  (IF "menu" \in DOMAIN h THEN MenuFiles(h.menu) ELSE <<h>>)
             \o MenuFiles(Tail(m))

\* The paths of the directory entries of the menu tree m, which hangs at path p.
RECURSIVE MenuDirs(_, _)
MenuDirs(p, m) ==
    IF m = <<>> THEN {}
    ELSE LET h == Head(m)
         IN  (IF "menu" \in DOMAIN h
              THEN {Append(p, h.name)} \cup MenuDirs(Append(p, h.name), h.menu)
              ELSE {})
             \cup MenuDirs(p, Tail(m))

\* Every directory entry of the menu tree has children.
RECURSIVE NoEmptyDirEntry(_)
NoEmptyDirEntry(m) ==
    \A i \in 1..Len(m) :
        "menu" \in DOMAIN m[i] => (m[i].menu # <<>> /\ NoEmptyDirEntry(m[i].menu))

PathsOf(entries) == {entries[i].path : i \in 1..Len(entries)}

\* C5: tree mirror completeness. For a source tree with N eligible files and
\* no excluded or skipped directory, a top-level call that returned Ok on an
\* empty output tree leaves exactly N pages and N file entries: one page at
\* each file's relative path with .html appended, one entry carrying each
\* file's relative path.
C5_TreeMirrorComplete ==
    (Walked /\ tree.dirs \cap SkippedPaths = {}) =>
        LET el == EligibleFiles(tree)
            fe == MenuFiles(result)
        IN  /\ Cardinality(Pages) = Cardinality(el)
            /\ Len(fe) = Cardinality(el)
            /\ {display(f) : f \in Pages} = {display(f) \o ".html" : f \in el}
            /\ PathsOf(fe) = {display(f) : f \in el}

\* A tree of three eligible files at depths 0, 2 and 3 has been mirrored.
C5_Witness ==
    /\ Walked
    /\ tree.dirs \cap SkippedPaths = {}
    /\ {<<"MainActivity.java">>, <<"res", "layout", "main.xml">>,
        <<"a", "b", "c", "File.java">>} \subseteq tree.files

\* C6: empty-subtree pruning. After the top-level call returned, a source
\* directory whose subtree holds no eligible file outside excluded and skipped
\* directories has no directory entry in the menu and no directory in the
\* output tree.
C6_EmptySubtreePruned ==
    Walked =>
        \A d \in tree.dirs :
            Barren(tree, d) => (d \notin outDirs /\ d \notin MenuDirs(<<>>, result))

\* The walk went through a/b, which holds only notes.txt, and through classes,
\* which holds only the excluded classes/android.
C6_Witness ==
    /\ Walked
    /\ <<"a", "b">> \in readDirs /\ Barren(tree, <<"a">>)
    /\ <<"classes">> \in readDirs /\ Barren(tree, <<"classes">>)
    /\ <<"classes", "android">> \in tree.dirs

\* C7: exclusion enforcement. No excluded path, and nothing below one, is
\* ever read, entered, created in the output tree, rendered or listed in a
\* menu.
C7_ExclusionEnforced ==
    /\ \A q \in readDirs \cup outDirs \cup outFiles : ~UnderExcluded(q)
    /\ \A i \in 1..Len(stack) :
          /\ ~UnderExcluded(stack[i].path)
          /\ \A f \in tree.files :
                UnderExcluded(f) => display(f) \notin PathsOf(MenuFiles(stack[i].menu))
          /\ \A d \in MenuDirs(stack[i].path, stack[i].menu) : ~UnderExcluded(d)
    /\ \A f \in tree.files :
          UnderExcluded(f) =>
              /\ \A i \in 1..Len(rendered) : rendered[i].path # display(f)
              /\ display(f) \notin PathsOf(MenuFiles(result))
    /\ \A d \in MenuDirs(<<>>, result) : ~UnderExcluded(d)

\* The walk returned over a tree with java files below smali and classes/android.
C7_Witness ==
    /\ Walked
    /\ <<"smali", "S.java">> \in tree.files
    /\ <<"classes", "android", "A.java">> \in tree.files
    /\ <<"classes">> \in readDirs

\* C8: menu/output isomorphism. After the top-level call returned Ok on an
\* empty output tree, the directories below the output src root are the paths
\* of the menu's directory entries, no directory entry has an empty child
\* list, no output directory is empty, and every file entry has its page.
C8_MenuOutputIsomorphic ==
    Walked =>
        /\ outDirs \ {<<>>} = MenuDirs(<<>>, result)
        /\ NoEmptyDirEntry(result)
        /\ \A d \in outDirs \ {<<>>} :
              \E q \in outDirs \cup Pages : Len(q) > 0 /\ Parent(q) = d
        /\ \A p \in PathsOf(MenuFiles(result)) :
              \E f \in outFiles : display(f) = p \o ".html"

\* The walk returned over a tree with a mirrored branch and a pruned branch.
C8_Witness ==
    /\ Walked
    /\ <<"res", "layout", "main.xml">> \in tree.files
    /\ <<"a", "b", "notes.txt">> \in tree.files
    /\ <<"a", "b">> \in readDirs
    /\ <<"res", "layout">> \in outDirs

\* n parent-directory segments.
Segments(n) ==
    CASE n = 0 -> ""
      [] n = 1 -> "../"
      [] n = 2 -> "../../"
      [] n = 3 -> "../../../"
      [] n = 4 -> "../../../../"
      [] n = 5 -> "../../../../../"
      [] n = 6 -> "../../../../../../"
      [] OTHER -> "more"

\* The number of directories that enclose the file f below the source root.
Enclosing(f) == Cardinality({d \in tree.dirs : d # <<>> /\ IsPrefix(d, f)})

\* C9, as claimed: a rendered file with d enclosing directories gets a
\* back_path of exactly d segments, a/b/c/File.java one of three.
C9_BackPathPerDirectory ==
    \A i \in 1..Len(rendered) :
        \A f \in tree.files :
            rendered[i].path = display(f) =>
                rendered[i].back_path = Segments(Enclosing(f))

\* C9, amended: a rendered file with d enclosing directories gets a back_path
\* of exactly d + 1 segments, one per component of its relative path, the file
\* name included; a/b/c/File.java gets four.
C9_BackPathPerComponent ==
    \A i \in 1..Len(rendered) :
        /\ \A f \in tree.files :
              rendered[i].path = display(f) =>
                  rendered[i].back_path = Segments(Enclosing(f) + 1)
        /\ rendered[i].path = "a/b/c/File.java" =>
              rendered[i].back_path = "../../../../"

\* a/b/c/File.java has been rendered.
C9_Witness ==
    \E i \in 1..Len(rendered) : rendered[i].path = "a/b/c/File.java"

\* C11: a failed read of an eligible source file is fatal to the walk. The
\* error leaves every active call, the file gets no page, no file met later
\* gets one, src/index.html is not written, and the output tree stays as it
\* was when the read failed.
C11_ReadFailureIsFatal ==
    fault.kind = "read_err" =>
        /\ wpc = "failed"
        /\ stack = <<>>
        /\ \A f \in outFiles : display(f) # display(fault.path) \o ".html"
        /\ <<"index.html">> \notin outFiles
        /\ {display(f) : f \in outFiles} =
               {rendered[i].path \o ".html" : i \in 1..Len(rendered)}
        /\ outFiles = fault.outFiles
        /\ outDirs = fault.outDirs

\* The read of a file two or more directories deep failed after a page had
\* been written.
C11_Witness ==
    /\ fault.kind = "read_err"
    /\ Len(fault.path) >= 3
    /\ outFiles # {}
    /\ wpc = "failed"

\* C20: the backup directory is skipped at the workspace root only. The root
\* directory original is never read, gets no output directory and no menu
\* entry; classes/a/original is walked and mirrored like any directory.
C20_BackupSkippedAtRootOnly ==
    /\ \A q \in readDirs \cup outDirs \cup outFiles : ~IsPrefix(<<"original">>, q)
    /\ \A i \in 1..Len(stack) :
          /\ ~IsPrefix(<<"original">>, stack[i].path)
          /\ <<"original">> \notin MenuDirs(stack[i].path, stack[i].menu)
    /\ <<"original">> \notin MenuDirs(<<>>, result)
    /\ (Walked /\ <<"classes", "a", "original", "F.java">> \in tree.files) =>
          /\ <<"classes", "a", "original">> \in readDirs
          /\ <<"classes", "a", "original">> \in outDirs
          /\ <<"classes", "a", "original">> \in MenuDirs(<<>>, result)
          /\ <<"classes", "a", "original", "F.java.html">> \in outFiles
          /\ "classes/a/original/F.java" \in PathsOf(MenuFiles(result))

\* The walk returned over a tree with original/O.java and classes/a/original/F.java.
C20_Witness ==
    /\ Walked
    /\ <<"original", "O.java">> \in tree.files
    /\ <<"classes", "a", "original", "F.java">> \in tree.files

(***************************************************************************)
(* Further properties of the pipeline.                                     *)
(***************************************************************************)

\* The last stage printed the warning of a failed fs::remove_dir_all.
RemoveFailed == \E i \in 1..Len(console) : console[i] = "warning: remove failed"

\* C14: a stage called with force whose marker exists as a directory deletes
\* it before it invokes its tool: decompress the package folder (a failed
\* deletion is the warning of C15), decompile the classes folder.
C14_ForcedStageDeletesMarker ==
    force =>
        /\ (last.stage = "decompress" /\ last.ws.pkg) =>
              (invoked[Len(invoked)].ws = NoWorkspace \/ RemoveFailed)
        /\ (last.stage = "decompile" /\ last.ws.classes) =>
              ~invoked[Len(invoked)].ws.classes

\* C15: a failed deletion of the stale workspace is a warning only. decompress
\* goes on to invoke apktool over the workspace as it was, and the run exits
\* exactly when that invocation fails.
C15_RemoveFailureIsWarning ==
    (last.stage = "decompress" /\ RemoveFailed) =>
        /\ force
        /\ Len(invoked) = Len(last.invoked) + 1
        /\ invoked[Len(invoked)].tool = "apktool"
        /\ invoked[Len(invoked)].ws = last.ws
        /\ (pc = "exited") <=> (invoked[Len(invoked)].result # "ok")
        /\ (pc # "exited") => (pc = "extract_dex" /\ ws.pkg)

\* decompress returned after a failed deletion and a successful apktool.
C15_Witness ==
    /\ last.stage = "decompress"
    /\ RemoveFailed
    /\ pc = "extract_dex"

\* The argument vector names its output path: -o or -od, followed by a path.
HasOutputArg(args) == \E k \in 1..(Len(args) - 1) : args[k] \in {"-o", "-od"}

\* The argument vector holds a force-overwrite flag.
HasForceFlag(args) == \E k \in 1..Len(args) : args[k] \in {"-f", "--force"}

\* C16: every invocation's argument vector holds an explicit output-path
\* argument and a force-overwrite flag.
C16_OutputPathAndForceFlag ==
    \A i \in 1..Len(invoked) :
        HasOutputArg(invoked[i].args) /\ HasForceFlag(invoked[i].args)

\* Benchmark lists the caller may hold when it calls extract_dex.
PriorBenchmarks == {<<>>, <<"Manifest analysis">>, <<"Manifest analysis", "Code analysis">>}

BothBenchmarks == <<"Dex extraction", "Dex to Jar decompilation">>

\* C17: the benchmark list is append-only. An extract_dex that runs to its
\* end appends Dex extraction and Dex to Jar decompilation, in that order; a
\* skipped extract_dex appends nothing; decompress and decompile append nothing.
C17_BenchmarkSequence ==
    /\ last.stage \in {"decompress", "decompile"} => benchmarks = last.benchmarks
    /\ last.stage = "extract_dex" =>
          /\ IsPrefix(last.benchmarks, benchmarks)
          /\ ~last.ran => benchmarks = last.benchmarks
          /\ (last.ran /\ last.err = "none") =>
                benchmarks = last.benchmarks \o BothBenchmarks
    /\ pc = "extract_dex" =>
          \A b \in PriorBenchmarks, cr \in IoResults, rd \in IoResults,
             wr \in IoResults, out \in ToolResults :
              LET r == extract_dex(apk, ws, invoked, b, force, verbose, quiet,
                                   cr, rd, wr, out)
              IN  /\ IsPrefix(b, r.benchmarks)
                  /\ ~r.ran => r.benchmarks = b
                  /\ (r.ran /\ r.err = "none") => r.benchmarks = b \o BothBenchmarks

\* extract_dex ran to its end.
C17_Witness ==
    /\ last.stage = "extract_dex" /\ last.ran
    /\ pc = "decompile"
    /\ benchmarks = BothBenchmarks

\* What a stage does apart from its narration.
Effect(r) == [ws |-> r.ws, invoked |-> r.invoked, ran |-> r.ran, err |-> r.err]

\* C18: verbose and quiet change the narration only. The stage about to be
\* called, from this workspace with this force flag and the same outcomes of
\* its calls, skips or runs, invokes, writes, appends and exits alike under
\* every value of verbose and quiet.
C18_NarrationOnly ==
    \A v \in BOOLEAN, q \in BOOLEAN :
        /\ pc = "decompress" =>
              \A rm \in IoResults, out \in ToolResults :
                  Effect(decompress(ws, invoked, benchmarks, force, v, q, rm, out))
                  = Effect(decompress(ws, invoked, benchmarks, force, verbose, quiet,
                                      rm, out))
        /\ pc = "extract_dex" =>
              \A cr \in IoResults, rd \in IoResults, wr \in IoResults,
                 out \in ToolResults :
                  LET r1 == extract_dex(apk, ws, invoked, benchmarks, force, v, q,
                                        cr, rd, wr, out)
                      r2 == extract_dex(apk, ws, invoked, benchmarks, force, verbose,
                                        quiet, cr, rd, wr, out)
                  IN  Effect(r1) = Effect(r2) /\ r1.benchmarks = r2.benchmarks
        /\ pc = "decompile" =>
              \A out \in ToolResults :
                  Effect(decompile(ws, invoked, benchmarks, force, v, q, out))
                  = Effect(decompile(ws, invoked, benchmarks, force, verbose, quiet, out))

\* A forced verbose run is about to call extract_dex, after a narrated decompress.
C18_Witness ==
    /\ pc = "extract_dex"
    /\ force /\ verbose /\ ~quiet
    /\ console # <<>>

\* C19: the extraction step writes classes.dex atomically: after an
\* extract_dex that ran, classes.dex holds the whole entry or is as it was
\* when extract_dex was called.
C19_AtomicExtraction ==
    (last.stage = "extract_dex" /\ last.ran) =>
        ws.dex \in {"complete", last.ws.dex}

(***************************************************************************)
(* Properties of the report generator.                                     *)
(***************************************************************************)

\* Report::generate has returned Ok.
Generated == rpc = "copied" /\ wpc = "done"

\* C12: a successful Report::generate has copied every entry of the template
\* directory that is not a template into the output root under its name:
\* every subdirectory with what it holds and every file whose extension is
\* not hbs, those with no extension included; no .hbs file is copied.
C12_AssetsCopied ==
    Generated =>
        /\ \A d \in tdir.dirs : copy_folder(d) \subseteq outRoot
        /\ \A f \in tdir.entries : (extension(f) # "hbs") => (f \in outRoot)
        /\ \A f \in tdir.entries : (extension(f) = "hbs") => (f \notin outRoot)

\* C13: from_path returns a generator only if the template directory can be
\* listed, every .hbs file in it registers and report, src and code are
\* registered; otherwise it returns an error, no generator exists and nothing
\* is generated.
C13_GeneratorOnlyFromCompleteTemplates ==
    rpc # "new" =>
        /\ (rpc # "load_failed") <=>
              /\ tdir.listable
              /\ \A f \in tdir.entries : extension(f) = "hbs" => f \notin tdir.broken
              /\ {"report.hbs", "src.hbs", "code.hbs"} \subseteq tdir.entries
        /\ (rpc # "load_failed") =>
              /\ {"report", "src", "code"} \subseteq handler
              /\ handler = registered(tdir)
        /\ (rpc = "load_failed") =>
              /\ handler = {}
              /\ outRoot = {} /\ outFiles = {} /\ outDirs = {}
              /\ wpc = "idle"

\* from_path has failed on a listable directory whose templates all register
\* and which holds report.hbs, for want of another required template.
C13_Witness ==
    /\ rpc = "load_failed"
    /\ tdir.listable
    /\ tdir.broken = {}
    /\ "report.hbs" \in tdir.entries

(***************************************************************************)
(* Order of the menu.                                                      *)
(***************************************************************************)

\* The children of p in the order the directory listing o returns them.
Listing(t, o, p) ==
    LET names == {n \in {NameOrder[i] : i \in 1..Len(NameOrder)} :
                     Append(p, n) \in t.files \cup t.dirs}
        pos(n) == CHOOSE i \in 1..Len(NameOrder) : NameOrder[i] = n
        before(a, b) == IF o = "fwd" THEN pos(a) < pos(b) ELSE pos(b) < pos(a)
    IN  CHOOSE s \in [1..Cardinality(names) -> names] :
            \A i, j \in 1..Cardinality(names) : i < j => before(s[i], s[j])

\* The menu of the directory p as a function of the tree and of the listing
\* order alone: the kept children of p, in listing order.
RECURSIVE MenuOf(_, _, _)
MenuOf(t, o, p) ==
    LET walkable(q) == q \in t.dirs /\ ~is_original(q) /\ ~is_excluded(q)
        kept(n) == LET q == Append(p, n)
                   IN  \/ q \in t.files /\ is_eligible(extension(n))
                       \/ walkable(q) /\ MenuOf(t, o, q) # <<>>
        names == SelectSeq(Listing(t, o, p), kept)
    IN  [i \in 1..Len(names) |->
            LET q == Append(p, names[i])
            IN  IF q \in t.files THEN file_object(q)
                ELSE dir_object(q, MenuOf(t, o, q))]

\* The names of the nodes of a menu, in order.
NamesOf(m) == [i \in 1..Len(m) |-> m[i].name]

\* s holds, in the order of l, the elements of l that it holds.
InOrderOf(s, l) ==
    LET held(n) == \E i \in 1..Len(s) : s[i] = n
    IN  s = SelectSeq(l, held)

\* C21: at every level the menu nodes stand in the order in which the
\* directory listing returns their children, the pruned and ineligible ones
\* left out and nothing sorted; the menu a walk returns is the one fixed by
\* the tree and the listing order, whatever else happened during the walk.
C21_MenuInListingOrder ==
    /\ \A k \in 1..Len(stack) :
          InOrderOf(NamesOf(stack[k].menu), Listing(tree, order, stack[k].path))
    /\ Walked =>
          /\ result = MenuOf(tree, order, <<>>)
          /\ InOrderOf(NamesOf(result), Listing(tree, order, <<>>))

\* A walk over a reversed listing returned a menu of files and directories,
\* with a child left out at the top level.
C21_Witness ==
    /\ Walked
    /\ order = "rev"
    /\ Len(result) >= 2
    /\ \E i \in 1..Len(result) : "menu" \in DOMAIN result[i]
    /\ Len(result) < Len(Listing(tree, order, <<>>))

====
